---- MODULE Spec2Model ----
(***************************************************************************)
(* Eisenberg-Noe contagion clearing (eisenberg_noes_contagion_sparse.py).  *)
(*                                                                         *)
(* The two library entry points, clearing_p (fictitious-default fixed      *)
(* point iteration) and clearing_p_LP (linear program), are modelled as a  *)
(* state machine over one input (L, e).  Numbers are exact rationals       *)
(* <<num, den>> with den > 0 in lowest terms, so that the strict           *)
(* comparison of next_default_ind and the list equality of the outer loop  *)
(* are the comparisons of the real-number semantics of the code.           *)
(* scipy.optimize.fixed_point and scipy.optimize.linprog are not code of   *)
(* the repository; they are modelled by what they return to the caller.    *)
(***************************************************************************)
EXTENDS Integers, Sequences, FiniteSets

\* ------------------------------------------------------------------ bounds
\* Every node owes at most MaxDebt in total (p_bar[i] <= MaxDebt).
MaxDebt == 2
\* External assets e[i] are drawn from -MaxE..MaxE.
MaxE == 1
\* Malformed inputs draw liabilities from -NegL..NegL.
NegL == 1
\* The instances have three nodes, 0..n-1 with n = len(p_bar) = 3.
Nodes == {0, 1, 2}
NumNodes == Cardinality(Nodes)
\* The outer loop of clearing_p has no cap in the code; the model stops
\* counting next_p calls here, above the n+1 the theory allows.
IterCap == NumNodes + 3

\* A numpy array or sparse matrix: held by value, every entry computed once.
Array(f) == IF f = f THEN f ELSE f

\* --------------------------------------------------- exact real arithmetic
Abs(x) == IF x < 0 THEN -x ELSE x

RECURSIVE GCD(_, _)
GCD(a, b) == IF b = 0 THEN a ELSE GCD(b, a % b)

LCM(a, b) == (a * b) \div GCD(a, b)

\* The rational n/d (d # 0) in lowest terms with a positive denominator.
Rat(n, d) ==
    LET g == GCD(Abs(n), Abs(d))
        s == IF d < 0 THEN -1 ELSE 1
    IN  <<(s * n) \div g, (s * d) \div g>>

R(k) == <<k, 1>>
Zero == R(0)
One == R(1)

RAdd(a, b) == Rat(a[1] * b[2] + b[1] * a[2], a[2] * b[2])
RSub(a, b) == Rat(a[1] * b[2] - b[1] * a[2], a[2] * b[2])
RMul(a, b) == Rat(a[1] * b[1], a[2] * b[2])
RDiv(a, b) == Rat(a[1] * b[2], a[2] * b[1])
RLt(a, b) == a[1] * b[2] < b[1] * a[2]
RLe(a, b) == a[1] * b[2] <= b[1] * a[2]
RMin(a, b) == IF RLt(b, a) THEN b ELSE a

\* Sum of the rational vector f over nodes 0..k.
RECURSIVE RSum(_, _)
RSum(f, k) == IF k < 0 THEN Zero ELSE RAdd(f[k], RSum(f, k - 1))

VecSum(f) == RSum(f, NumNodes - 1)

ZeroVec == [i \in Nodes |-> Zero]
Unit(j) == [i \in Nodes |-> IF i = j THEN One ELSE Zero]

\* ---------------------------------------------------- matrix preprocessor
\* calc_p_bar: row sums of L.
calc_p_bar(Lm) ==
    Array([i \in Nodes |-> VecSum([j \in Nodes |-> R(Lm[i][j])])])

\* calc_Pi: row i of L divided by p_bar[i] where p_bar[i] != 0, else zeros.
calc_Pi(Lm) ==
    LET pb == calc_p_bar(Lm)
    IN  Array([i \in Nodes |-> [j \in Nodes |->
            IF pb[i] # Zero THEN RDiv(R(Lm[i][j]), pb[i]) ELSE Zero]])

\* Pi.transpose() * v : the inflow of each node under payments v.
PiT(Pi, v) ==
    Array([i \in Nodes |-> VecSum([j \in Nodes |-> RMul(Pi[j][i], v[j])])])

\* ------------------------------------------------------ default-set oracle
\* Phi with the inflow from the other nodes left out: min(e, p_bar).
Phi_noinflow(p, Pi, p_bar, e) ==
    Array([i \in Nodes |-> RMin(e[i], p_bar[i])])

\* Phi: funds available for debt obligations, min(Pi^T p + e, p_bar).
Phi(p, Pi, p_bar, e) ==
    LET inflow == PiT(Pi, p)
    IN  Array([i \in Nodes |-> RMin(RAdd(inflow[i], e[i]), p_bar[i])])

\* next_default_ind with p_bar[i] >= pp[i] in place of p_bar[i] > pp[i].
next_default_ind_nonstrict(p, Pi, p_bar, e) ==
    LET pp == Phi(p, Pi, p_bar, e)
    IN  Array([i \in Nodes |-> IF RLe(pp[i], p_bar[i]) THEN 1 ELSE 0])

\* next_default_ind: D[i] = 1 iff p_bar[i] > Phi(p)[i].
next_default_ind(p, Pi, p_bar, e) ==
    LET pp == Phi(p, Pi, p_bar, e)
    IN  Array([i \in Nodes |-> IF RLt(pp[i], p_bar[i]) THEN 1 ELSE 0])

\* ------------------------------------------------------- fixed-point solve
\* FF with the external assets left out of the defaulting nodes' funds.
FF_noassets(p, p_0, Pi, Lambda, e, p_bar) ==
    LET q == Array([i \in Nodes |-> IF Lambda[i] = 1 THEN p[i] ELSE p_bar[i]])
        r == PiT(Pi, q)
    IN  Array([i \in Nodes |-> IF Lambda[i] = 1 THEN r[i] ELSE p_bar[i]])

\* FF: Lam*(Pi^T*(Lam*p + (I-Lam)*p_bar) + e) + (I-Lam)*p_bar, Lam = diag(D).
FF(p, p_0, Pi, Lambda, e, p_bar) ==
    LET q == Array([i \in Nodes |-> IF Lambda[i] = 1 THEN p[i] ELSE p_bar[i]])
        r == PiT(Pi, q)
    IN  Array([i \in Nodes |->
            IF Lambda[i] = 1 THEN RAdd(r[i], e[i]) ELSE p_bar[i]])

\* ---------------------------------------------------------- linear systems
\* The system M x = b over the rationals as an integer matrix with the
\* right-hand side in column NumNodes: every row is multiplied by the
\* least common multiple of its denominators.
RECURSIVE RowLCM(_, _, _)
RowLCM(row, rhs, k) ==
    IF k < 0 THEN rhs[2] ELSE LCM(row[k][2], RowLCM(row, rhs, k - 1))

IntSystem(M, b) ==
    Array([i \in DOMAIN M |->
        LET m == RowLCM(M[i], b[i], NumNodes - 1)
        IN  [k \in 0 .. NumNodes |->
                IF k < NumNodes THEN M[i][k][1] * (m \div M[i][k][2])
                ELSE b[i][1] * (m \div b[i][2])]])

\* Determinant of the integer matrix A restricted to the index sequences
\* rows and cols (Laplace expansion along the first row, closed forms up
\* to 2 x 2).
RECURSIVE Det(_, _, _)
RECURSIVE DetRow(_, _, _, _)
Drop(s, k) ==
    Array([i \in 1 .. (Len(s) - 1) |-> IF i < k THEN s[i] ELSE s[i + 1]])
DetRow(A, rows, cols, k) ==
    IF k > Len(cols) THEN 0
    ELSE (IF k % 2 = 1 THEN 1 ELSE -1) * A[rows[1]][cols[k]]
            * Det(A, Tail(rows), Drop(cols, k))
         + DetRow(A, rows, cols, k + 1)
Det(A, rows, cols) ==
    CASE Len(rows) = 0 -> 1
      [] Len(rows) = 1 -> A[rows[1]][cols[1]]
      [] Len(rows) = 2 -> A[rows[1]][cols[1]] * A[rows[2]][cols[2]]
                            - A[rows[1]][cols[2]] * A[rows[2]][cols[1]]
      [] OTHER -> DetRow(A, rows, cols, 1)

NodeSeq == [i \in 1 .. NumNodes |-> i - 1]

\* Cramer's rule for the rows (a sequence of NumNodes row indices) of the
\* integer system A: whether they are linearly independent, and then the
\* solution of those rows taken as equations.
Cramer(A, rows) ==
    LET d == Det(A, rows, NodeSeq)
    IN  IF d = 0 THEN [regular |-> FALSE, x |-> ZeroVec]
        ELSE [regular |-> TRUE,
              x |-> Array([j \in Nodes |->
                      Rat(Det(A, rows, [NodeSeq EXCEPT ![j + 1] = NumNodes]),
                          d)])]

LinSolve(M, b) == Cramer(IntSystem(M, b), NodeSeq)

\* scipy.optimize.fixed_point(FF, p_0, args=...): FF is affine in p, so its
\* fixed points solve (I - A) p = c with c = FF(0) and A's column j equal to
\* FF(unit_j) - c.
\*  - I - A singular: the iterates do not settle and fixed_point raises
\*    RuntimeError after maxiter steps.
\*  - I - A regular: the iteration converges to the unique fixed point x
\*    (for non-negative L the map contracts on the defaulting nodes).  Its
\*    stopping test is a relative error, so where x is 0 at a defaulting node
\*    it stops only if the iterates hit 0 exactly, and raises RuntimeError
\*    otherwise: both outcomes are possible.
\*  - With negative liabilities the map need not contract: both outcomes
\*    are possible.
fixed_point(p_0, Pi, Lambda, e, p_bar, contracting) ==
    LET c == FF(ZeroVec, p_0, Pi, Lambda, e, p_bar)
        col == Array([j \in Nodes |-> FF(Unit(j), p_0, Pi, Lambda, e, p_bar)])
        M == Array([i \in Nodes |-> [j \in Nodes |->
                RSub(IF i = j THEN One ELSE Zero, RSub(col[j][i], c[i]))]])
        sol == LinSolve(M, c)
        failed == [ok |-> FALSE, x |-> ZeroVec]
        surely == /\ contracting
                  /\ \A i \in Nodes : Lambda[i] = 1 => sol.x[i] # Zero
    IN  IF ~sol.regular THEN {failed}
        ELSE {[ok |-> TRUE, x |-> sol.x]}
             \cup (IF surely THEN {} ELSE {failed})

\* ------------------------------------------------------------------- state
VARIABLES
    L,          \* nominal liabilities matrix (input, never mutated)
    e,          \* external assets vector (input, never mutated)
    pc,         \* position of clearing_p
    p_0, D_0,   \* previous iterate and default set
    p_1, D_1,   \* current iterate and default set
    calls,      \* number of next_p calls made so far
    lp_pc,      \* position of clearing_p_LP
    res,        \* the OptimizeResult of linprog
    p_lp, D_lp  \* result of clearing_p_LP

vars == <<L, e, pc, p_0, D_0, p_1, D_1, calls, lp_pc, res, p_lp, D_lp>>

eR == [i \in Nodes |-> R(e[i])]
p_bar == calc_p_bar(L)
PiM == calc_Pi(L)

NoD == [i \in Nodes |-> 0]
NoRes == [status |-> -1, hasx |-> FALSE, x |-> ZeroVec]

\* The data model's precondition: L non-negative (the diagonal is zero and
\* the shapes agree in every input the model draws).
NonNegative(Lm) == \A i, j \in Nodes : Lm[i][j] >= 0

RowSum(Lm, i) == Lm[i][0] + Lm[i][1] + Lm[i][2]

\* Liability matrices with entries in lo..hi and a zero diagonal.
Matrices(lo, hi) ==
    {Lm \in [Nodes -> [Nodes -> lo .. hi]] : \A i \in Nodes : Lm[i][i] = 0}

\* The matrices of the data model: non-negative, and row sums within MaxDebt.
Liabilities ==
    {Lm \in Matrices(0, MaxDebt) : \A i \in Nodes : RowSum(Lm, i) <= MaxDebt}

\* Renaming the nodes renames the result, so the inputs are taken up to
\* renaming: the nodes are numbered by non-increasing external assets.
Assets ==
    {ev \in [Nodes -> (-MaxE) .. MaxE] :
        \A i, j \in Nodes : i < j => ev[i] >= ev[j]}

InitWith(Ls) ==
    /\ L \in Ls
    /\ e \in Assets
    /\ pc = "start"
    /\ p_0 = ZeroVec /\ D_0 = NoD
    /\ p_1 = ZeroVec /\ D_1 = NoD
    /\ calls = 0
    /\ lp_pc = "idle"
    /\ res = NoRes
    /\ p_lp = ZeroVec /\ D_lp = NoD

\* Inputs the data model allows.
Init == InitWith(Liabilities)
\* Inputs including malformed ones (negative liabilities).
InitAny == InitWith(Matrices(-NegL, NegL))

\* next_p: Lambda = diag(D_0); p_1 = fixed point of FF; D_1 = next default set.
next_p(p0, D0) ==
    {[ok |-> o.ok, p |-> o.x,
      D |-> IF o.ok THEN next_default_ind(o.x, PiM, p_bar, eR) ELSE NoD] :
        o \in fixed_point(p0, PiM, D0, eR, p_bar, NonNegative(L))}

\* Start with the pessimistic iterate p_0 = 0 in place of p_0 = p_bar.
Start_pessimistic ==
    /\ pc = "start"
    /\ p_0' = ZeroVec
    /\ D_0' = next_default_ind(ZeroVec, PiM, p_bar, eR)
    /\ pc' = "first"
    /\ UNCHANGED <<L, e, p_1, D_1, calls, lp_pc, res, p_lp, D_lp>>

\* clearing_p, lines 63-67: p_0 = p_bar, D_0 = next_default_ind(p_0).
Start ==
    /\ pc = "start"
    /\ p_0' = p_bar
    /\ D_0' = next_default_ind(p_bar, PiM, p_bar, eR)
    /\ pc' = "first"
    /\ UNCHANGED <<L, e, p_1, D_1, calls, lp_pc, res, p_lp, D_lp>>

\* clearing_p, line 69: the first inner solve.
FirstSolve ==
    /\ pc = "first"
    /\ \E o \in next_p(p_0, D_0) :
        /\ p_1' = o.p
        /\ D_1' = o.D
        /\ pc' = IF o.ok THEN "loop" ELSE "fp_error"
    /\ calls' = calls + 1
    /\ UNCHANGED <<L, e, p_0, D_0, lp_pc, res, p_lp, D_lp>>

\* LoopIter without line 72: D_0 keeps the default set of the first pass.
LoopIter_stale ==
    /\ pc = "loop"
    /\ D_1 # D_0
    /\ calls < IterCap
    /\ p_0' = p_1
    /\ \E o \in next_p(p_1, D_0) :
        /\ p_1' = o.p
        /\ D_1' = o.D
        /\ pc' = IF o.ok THEN "loop" ELSE "fp_error"
    /\ calls' = calls + 1
    /\ UNCHANGED <<L, e, D_0, lp_pc, res, p_lp, D_lp>>

\* clearing_p, lines 71-74: one pass of the while loop.
LoopIter ==
    /\ pc = "loop"
    /\ D_1 # D_0
    /\ calls < IterCap
    /\ D_0' = D_1
    /\ p_0' = p_1
    /\ \E o \in next_p(p_1, D_1) :
        /\ p_1' = o.p
        /\ D_1' = o.D
        /\ pc' = IF o.ok THEN "loop" ELSE "fp_error"
    /\ calls' = calls + 1
    /\ UNCHANGED <<L, e, lp_pc, res, p_lp, D_lp>>

\* clearing_p, line 76: the loop condition is false, return p_1, D_1.
Return ==
    /\ pc = "loop"
    /\ D_1 = D_0
    /\ pc' = "returned"
    /\ UNCHANGED <<L, e, p_0, D_0, p_1, D_1, calls, lp_pc, res, p_lp, D_lp>>

\* ------------------------------------------------------------- LP solver
\* The 3n constraints of the program handed to linprog, numbered
\* 0..3n-1: n rows of A_ub x <= b_ub with A = I - Pi^T and b = e, then the
\* n lower bounds 0 <= x[i], then the n upper bounds x[i] <= p_bar[i].
ConsRow(Pi, pb, c) ==
    LET i == c % NumNodes
    IN  IF c \div NumNodes = 0
        THEN Array([j \in Nodes |->
                RSub(IF i = j THEN One ELSE Zero, Pi[j][i])])
        ELSE Unit(i)

ConsRhs(pb, ev, c) ==
    LET i == c % NumNodes
    IN  CASE c \div NumNodes = 0 -> ev[i]
          [] c \div NumNodes = 1 -> Zero
          [] OTHER -> pb[i]

\* x satisfies A_ub x <= b_ub and the bounds.
LPFeasible(Pi, pb, ev, x) ==
    LET inflow == PiT(Pi, x)
    IN  \A i \in Nodes :
            /\ RLe(RSub(x[i], inflow[i]), ev[i])
            /\ RLe(Zero, x[i])
            /\ RLe(x[i], pb[i])

\* The choices of n of the 3n constraints, as increasing sequences.  A
\* lower and an upper bound of the same variable are never independent.
LPSels ==
    {s \in [1 .. NumNodes -> 0 .. (3 * NumNodes - 1)] :
        \A i, j \in 1 .. NumNodes : i < j =>
            /\ s[i] < s[j]
            /\ ~(s[i] >= NumNodes /\ s[j] = s[i] + NumNodes)}

\* The vertices of the feasible polytope: the feasible solutions of n
\* linearly independent constraints taken with equality.
LPVertices(Pi, pb, ev) ==
    LET Cons == 0 .. (3 * NumNodes - 1)
        A == IntSystem(Array([c \in Cons |-> ConsRow(Pi, pb, c)]),
                       Array([c \in Cons |-> ConsRhs(pb, ev, c)]))
        basic == {y.x : y \in {z \in {Cramer(A, s) : s \in LPSels} : z.regular}}
    IN  {x \in basic : LPFeasible(Pi, pb, ev, x)}

\* obj_coeff with the sign lost: minimise sum(x).
obj_coeff_plus == [i \in Nodes |-> R(1)]

\* obj_coeff = -np.ones(len(e)): minimise -sum(x).
obj_coeff == [i \in Nodes |-> R(-1)]

\* c . x
Objective(c, x) == VecSum([i \in Nodes |-> RMul(c[i], x[i])])

\* optimize.linprog(c, A_ub, b_ub, bounds): the possible OptimizeResults.
\* The feasible set is bounded, so the program is either infeasible
\* (status 2) or has an optimal vertex (status 0) minimising c . x.  On
\* status 2 the x of the result is whatever the method left there: no
\* array at all, or the iterate it stopped at.
linprog(c, Pi, pb, ev) ==
    LET verts == LPVertices(Pi, pb, ev)
        best == {v \in verts :
                    \A w \in verts : RLe(Objective(c, v), Objective(c, w))}
    IN  IF verts # {}
        THEN {[status |-> 0, hasx |-> TRUE, x |-> v] : v \in best}
        ELSE {[status |-> 2, hasx |-> FALSE, x |-> ZeroVec],
              [status |-> 2, hasx |-> TRUE, x |-> ZeroVec],
              [status |-> 2, hasx |-> TRUE, x |-> pb]}

\* The caller runs the two solvers one after the other (lines 107-110).
ClearingPDone == pc \in {"returned", "fp_error"}

\* clearing_p_LP, lines 92-100: build the program and call linprog.  The
\* call passes sparse=True as a keyword argument; a linprog whose signature
\* has no such parameter raises TypeError before it solves anything.
LPSolve ==
    /\ ClearingPDone
    /\ lp_pc = "idle"
    /\ \/ /\ res' \in linprog(obj_coeff, PiM, p_bar, eR)
          /\ lp_pc' = "solved"
       \/ /\ res' = res
          /\ lp_pc' = "type_error"
    /\ UNCHANGED <<L, e, pc, p_0, D_0, p_1, D_1, calls, p_lp, D_lp>>

\* clearing_p_LP, lines 101-103: p_lp = res.x, D_lp from the oracle, return.
\* res.status is never read.  Without an x the product Pi^T * p_lp raises.
LPReturn ==
    /\ lp_pc = "solved"
    /\ IF res.hasx
       THEN /\ p_lp' = res.x
            /\ D_lp' = next_default_ind(res.x, PiM, p_bar, eR)
            /\ lp_pc' = "returned"
       ELSE /\ lp_pc' = "type_error"
            /\ UNCHANGED <<p_lp, D_lp>>
    /\ UNCHANGED <<L, e, pc, p_0, D_0, p_1, D_1, calls, res>>

Next ==
    \/ Start
    \/ FirstSolve
    \/ LoopIter
    \/ Return
    \/ LPSolve
    \/ LPReturn

\* clearing_p alone.
NextP ==
    \/ Start
    \/ FirstSolve
    \/ LoopIter
    \/ Return

\* clearing_p on well-formed inputs.
SpecP == Init /\ [][NextP]_vars
\* Both solvers on well-formed inputs.
Spec == Init /\ [][Next]_vars
\* Both solvers on all inputs, malformed ones included.
SpecAny == InitAny /\ [][Next]_vars

\* ------------------------------------------------------------ properties
Returned == pc = "returned"
Defaults(D) == {i \in Nodes : D[i] = 1}

\* The concrete scenario L = [[0,1],[2,0]], e = [1,0], with an isolated
\* third node that owes nothing and holds nothing.
ExampleL ==
    [i \in Nodes |-> [j \in Nodes |->
        IF i = 0 /\ j = 1 THEN 1 ELSE IF i = 1 /\ j = 0 THEN 2 ELSE 0]]
ExampleE == [i \in Nodes |-> IF i = 0 THEN 1 ELSE 0]
IsExample == L = ExampleL /\ e = ExampleE

\* C1: every returned payment vector satisfies 0 <= p[i] <= p_bar[i].
C1_PaymentBounds ==
    Returned => \A i \in Nodes : RLe(Zero, p_1[i]) /\ RLe(p_1[i], p_bar[i])

\* C2: on return D[i] = 1 exactly when p[i] < p_bar[i]; on the concrete
\* scenario the result is p[0] = 1, p[1] < 2 and D = [0, 1].
C2_DefaultConsistency ==
    Returned =>
        /\ \A i \in Nodes : (D_1[i] = 1) <=> RLt(p_1[i], p_bar[i])
        /\ IsExample =>
            /\ p_1[0] = One
            /\ RLt(p_1[1], R(2))
            /\ D_1 = [i \in Nodes |-> IF i = 1 THEN 1 ELSE 0]

C2_Witness == Returned /\ IsExample /\ Defaults(D_1) = {1}

\* C3: with L all zero, whatever e is, the result is p = 0 and D = 0.
C3_Degenerate ==
    (Returned /\ \A i, j \in Nodes : L[i][j] = 0) =>
        /\ p_bar = ZeroVec
        /\ p_1 = ZeroVec
        /\ D_1 = NoD

\* The vertices of the set of clearing vectors {p : 0 <= p <= p_bar,
\* p = Phi(p)}.  That set is the union of the faces of the polytope of the
\* linear program on which every node has its row or its upper bound
\* tight, so it is a single point exactly when it has a single vertex.
ClearingVectors ==
    {v \in LPVertices(PiM, p_bar, eR) : Phi(v, PiM, p_bar, eR) = v}
UniqueClearing == Cardinality(ClearingVectors) = 1

\* C4: on an instance with a unique clearing vector the two solvers return
\* the same payment vector and the same default set.
C4_SolverAgreement ==
    (Returned /\ lp_pc = "returned" /\ UniqueClearing) =>
        /\ p_lp = p_1
        /\ D_lp = D_1

C4_Witness ==
    /\ Returned /\ lp_pc = "returned"
    /\ UniqueClearing
    /\ Defaults(D_1) # {}
    /\ \E i \in Nodes : RLt(Zero, p_lp[i]) /\ RLt(p_lp[i], p_bar[i])

\* Every node covers its obligation when all the others pay in full.
NoDefaultPre ==
    LET inflow == PiT(PiM, p_bar)
    IN  \A i \in Nodes : RLe(p_bar[i], RAdd(eR[i], inflow[i]))

\* C5: in the no-default scenario the first inner solve succeeds, the loop
\* body is never entered, and the result is p = p_bar, D = 0 after one solve.
C5_NoDefault ==
    NoDefaultPre =>
        /\ pc # "fp_error"
        /\ calls <= 1
        /\ pc = "loop" => D_1 = D_0
        /\ Returned => p_1 = p_bar /\ D_1 = NoD /\ calls = 1

C5_Witness ==
    /\ Returned /\ NoDefaultPre
    /\ \E i \in Nodes : eR[i] = Zero /\ p_bar[i] # Zero
    /\ p_1 = p_bar

\* C6: a malformed input (here: a negative liability) is rejected before a
\* default set is computed, a solve is run or the LP solver is called.
C6_MalformedRejected ==
    ~NonNegative(L) =>
        /\ calls = 0
        /\ pc \notin {"loop", "returned"}
        /\ lp_pc \notin {"solved", "returned"}

\* C7: clearing_p_LP returns a pair only from an optimal solve.
C7_LPFailureSurfaced == lp_pc = "returned" => res.status = 0

\* C8: the outer loop makes at most n + 1 calls of next_p.
C8_Termination == calls <= NumNodes + 1

C8_Witness == Returned /\ calls = NumNodes /\ Defaults(D_1) = Nodes

\* C9: on return the non-defaulting nodes pay p_bar, the defaulting nodes
\* pay their available funds, p is a fixed point of Phi, and D is the
\* default set the last inner solve was built on.
C9_ClearingCondition ==
    Returned =>
        LET phi == Phi(p_1, PiM, p_bar, eR)
        IN  /\ \A i \in Nodes : D_1[i] = 0 => p_1[i] = p_bar[i]
            /\ \A i \in Nodes : D_1[i] = 1 => p_1[i] = phi[i]
            /\ p_1 = phi
            /\ D_1 = D_0

C9_Witness ==
    /\ Returned
    /\ \E i \in Nodes : D_1[i] = 1 /\ RLt(Zero, p_1[i])
    /\ \E i \in Nodes : D_1[i] = 0 /\ p_bar[i] # Zero

\* C10: after every inner solve the new default set contains the previous
\* one and the new payment vector is componentwise no larger.
C10_Monotone ==
    pc \in {"loop", "returned"} =>
        \A i \in Nodes :
            /\ D_0[i] = 1 => D_1[i] = 1
            /\ RLe(p_1[i], p_0[i])

C10_Witness ==
    /\ pc = "loop"
    /\ calls >= 2
    /\ Defaults(D_0) # {}
    /\ Defaults(D_0) # Defaults(D_1)
    /\ p_1 # p_0
====
